---- MODULE Spec2Model ----
(***************************************************************************)
(* A model of the rust-geojson parse / validate / serialize pipeline:     *)
(* JSON text -> generic JSON tree -> typed GeoJson / Geometry / Crs value  *)
(* and back.  The conversions are pure functions, modelled as operators;   *)
(* the state machine applies them to inputs drawn from bounded sets.       *)
(***************************************************************************)
EXTENDS Integers, Sequences, FiniteSets

VARIABLES text, entry, stage, value, output, again

vars == <<text, entry, stage, value, output, again>>

(***************************************************************************)
(* Bounds of the model.                                                    *)
(***************************************************************************)
\* coordinate, bbox and foreign-member numbers range over 0..MaxNum
MaxNum == 1
\* coordinate payloads are nested up to MaxDepth array levels above a Position
MaxDepth == 4
\* a GeometryCollection input lists at most MaxChildren children
MaxChildren == 2

(***************************************************************************)
(* Result<T, Error> and Option<T>.                                         *)
(***************************************************************************)
Ok(x) == [ok |-> TRUE, v |-> x]

Err(e) == [ok |-> FALSE, err |-> e]

CrsUnknownType(t) == [ok |-> FALSE, err |-> "CrsUnknownType", arg |-> t]

None == [some |-> FALSE]

Some(x) == [some |-> TRUE, val |-> x]

\* the closed error taxonomy (the payload of CrsUnknownType is carried apart)
Error ==
  { "BboxExpectedArray", "BboxExpectedNumericValues", "CrsExpectedObject",
    "CrsUnknownType", "GeoJsonExpectedObject", "GeoJsonUnknownType",
    "GeometryUnknownType", "MalformedJson", "PropertiesExpectedObjectOrNull",
    "FeatureInvalidGeometryValue", "ExpectedStringValue", "ExpectedProperty",
    "ExpectedF64Value", "ExpectedArrayValue", "ExpectedObjectValue" }

(***************************************************************************)
(* The generic JSON tree (serde_json::Value).  A number keeps whether it   *)
(* is an integer or a float literal; an object is a Map: its members in    *)
(* iteration order, one per key.                                           *)
(***************************************************************************)
JNull == [t |-> "null"]

JBool(b) == [t |-> "bool", b |-> b]

JInt(n) == [t |-> "num", n |-> n, float |-> FALSE]

JFloat(n) == [t |-> "num", n |-> n, float |-> TRUE]

JStr(s) == [t |-> "str", s |-> s]

JArr(a) == [t |-> "arr", a |-> a]

JObj(o) == [t |-> "obj", o |-> o]

Member(k, v) == [k |-> k, v |-> v]

\* a text that is not JSON at all
Garbage == [t |-> "garbage"]

\* The keys the model uses, in the byte-wise order of Rust's `String: Ord`.
KeyOrder ==
  << "bar", "bbox", "coordinates", "crs", "features", "foo", "geometries",
     "geometry", "href", "id", "name", "properties", "type", "zap" >>

Rank(k) == CHOOSE i \in 1..Len(KeyOrder) : KeyOrder[i] = k

KeyLess(a, b) == Rank(a) < Rank(b)

Keys(m) == { m[i].k : i \in 1..Len(m) }

MapNew == << >>

MapContains(m, k) == \E i \in 1..Len(m) : m[i].k = k

\* Map::get: Some(value) or None
MapGet(m, k) ==
  IF MapContains(m, k)
    THEN Some(m[CHOOSE i \in 1..Len(m) : m[i].k = k].v)
    ELSE None

\* A variant of Map::insert that keeps insertion order (an order-preserving map).
MapInsertInOrder(m, k, v) ==
  IF MapContains(m, k)
    THEN [i \in 1..Len(m) |-> IF m[i].k = k THEN Member(k, v) ELSE m[i]]
    ELSE Append(m, Member(k, v))

\* Map::insert of the key-sorted map: an existing key keeps its place and takes
\* the new value, a new key goes to its place in key order.
MapInsert(m, k, v) ==
  IF MapContains(m, k)
    THEN [i \in 1..Len(m) |-> IF m[i].k = k THEN Member(k, v) ELSE m[i]]
    ELSE LET n == Cardinality({ i \in 1..Len(m) : KeyLess(m[i].k, k) })
         IN  SubSeq(m, 1, n) \o << Member(k, v) >> \o SubSeq(m, n + 1, Len(m))

\* inserting members one after the other, as a loop over `members` does
RECURSIVE MapInsertAll(_, _)
MapInsertAll(m, members) ==
  IF members = << >>
    THEN m
    ELSE MapInsertAll(MapInsert(m, Head(members).k, Head(members).v), Tail(members))

IsSortedMap(m) == \A i \in 1..Len(m) : \A j \in 1..Len(m) : i < j => KeyLess(m[i].k, m[j].k)

(***************************************************************************)
(* serde_json::from_str / to_string.  A text is the tree as written: the   *)
(* members of an object in the order of the text, a key possibly written   *)
(* twice.  Decoding builds the Maps (the last occurrence of a key wins);   *)
(* encoding writes each Map in its iteration order.                        *)
(***************************************************************************)
RECURSIVE Decode(_)
Decode(txt) ==
  CASE txt.t = "arr" -> JArr([i \in 1..Len(txt.a) |-> Decode(txt.a[i])])
    [] txt.t = "obj" ->
         JObj(MapInsertAll(MapNew,
                [i \in 1..Len(txt.o) |-> Member(txt.o[i].k, Decode(txt.o[i].v))]))
    [] OTHER -> txt

RECURSIVE Encode(_)
Encode(json) ==
  CASE json.t = "arr" -> JArr([i \in 1..Len(json.a) |-> Encode(json.a[i])])
    [] json.t = "obj" ->
         JObj([i \in 1..Len(json.o) |-> Member(json.o[i].k, Encode(json.o[i].v))])
    [] OTHER -> json

\* serde_json::from_str::<serde_json::Value>
serde_from_str(s) == IF s = Garbage THEN Err("Syntax") ELSE Ok(Decode(s))

\* serde_json::to_value of an f64 and of a string
f64_to_value(x) == JFloat(x)

\* Value::as_f64: any number, integer or float
as_f64(json) == IF json.t = "num" THEN Some(json.n) ELSE None

(***************************************************************************)
(* Field-extraction utilities: the expect_* macros and the util module.    *)
(***************************************************************************)
\* the first error of the results, or all their values
TryAll(rs) ==
  IF \E i \in 1..Len(rs) : ~rs[i].ok
    THEN rs[CHOOSE i \in 1..Len(rs) : ~rs[i].ok /\ \A j \in 1..(i - 1) : rs[j].ok]
    ELSE Ok([i \in 1..Len(rs) |-> rs[i].v])

expect_property(object, key) ==
  IF MapContains(object, key) THEN Ok(MapGet(object, key).val) ELSE Err("ExpectedProperty")

expect_string(json) == IF json.t = "str" THEN Ok(json.s) ELSE Err("ExpectedStringValue")

expect_array(json) == IF json.t = "arr" THEN Ok(json.a) ELSE Err("ExpectedArrayValue")

expect_object(json) == IF json.t = "obj" THEN Ok(json.o) ELSE Err("ExpectedObjectValue")

expect_f64(json) == IF as_f64(json).some THEN Ok(as_f64(json).val) ELSE Err("ExpectedF64Value")

expect_type(object) ==
  LET p == expect_property(object, "type")
  IN  IF p.ok THEN expect_string(p.v) ELSE p

json_to_position(json) ==
  LET arr == expect_array(json)
  IN  IF ~arr.ok THEN arr
      ELSE TryAll([i \in 1..Len(arr.v) |-> expect_f64(arr.v[i])])

json_to_1d_positions(json) ==
  LET arr == expect_array(json)
  IN  IF ~arr.ok THEN arr
      ELSE TryAll([i \in 1..Len(arr.v) |-> json_to_position(arr.v[i])])

json_to_2d_positions(json) ==
  LET arr == expect_array(json)
  IN  IF ~arr.ok THEN arr
      ELSE TryAll([i \in 1..Len(arr.v) |-> json_to_1d_positions(arr.v[i])])

json_to_3d_positions(json) ==
  LET arr == expect_array(json)
  IN  IF ~arr.ok THEN arr
      ELSE TryAll([i \in 1..Len(arr.v) |-> json_to_2d_positions(arr.v[i])])

get_coords_value(object) == expect_property(object, "coordinates")

get_coords_one_pos(object) ==
  LET c == get_coords_value(object) IN IF c.ok THEN json_to_position(c.v) ELSE c

get_coords_1d_pos(object) ==
  LET c == get_coords_value(object) IN IF c.ok THEN json_to_1d_positions(c.v) ELSE c

get_coords_2d_pos(object) ==
  LET c == get_coords_value(object) IN IF c.ok THEN json_to_2d_positions(c.v) ELSE c

get_coords_3d_pos(object) ==
  LET c == get_coords_value(object) IN IF c.ok THEN json_to_3d_positions(c.v) ELSE c

get_bbox(object) ==
  LET b == MapGet(object, "bbox")
  IN  IF ~b.some THEN Ok(None)
      ELSE IF b.val.t # "arr" THEN Err("BboxExpectedArray")
      ELSE IF \E i \in 1..Len(b.val.a) : ~as_f64(b.val.a[i]).some
             THEN Err("BboxExpectedNumericValues")
      ELSE Ok(Some([i \in 1..Len(b.val.a) |-> as_f64(b.val.a[i]).val]))

\* the keys an object of the given `type` keeps in typed fields
ReservedKeys(type_) ==
  {"type", "bbox", "crs"} \cup
    (CASE type_ = "GeometryCollection" -> {"geometries"}
       [] type_ = "Feature" -> {"geometry", "properties", "id"}
       [] type_ = "FeatureCollection" -> {"features"}
       [] OTHER -> {"coordinates"})

MapWithout(m, keys) == SelectSeq(m, LAMBDA e : e.k \notin keys)

get_foreign_members(object) ==
  LET type_ == expect_type(object)
      rest == MapWithout(object, ReservedKeys(type_.v))
  IN  IF ~type_.ok THEN type_
      ELSE IF rest = << >> THEN Ok(None) ELSE Ok(Some(rest))

(***************************************************************************)
(* Crs.                                                                    *)
(***************************************************************************)
Named(name) == [variant |-> "Named", name |-> name]

Linked(href, type_) == [variant |-> "Linked", href |-> href, type_ |-> type_]

\* a serializer that never writes the optional `type` of a Linked CRS
Crs_to_object_NoType(crs) ==
  IF crs.variant = "Named"
    THEN MapInsert(MapInsert(MapNew, "type", JStr("name")), "properties",
                   JObj(MapInsert(MapNew, "name", JStr(crs.name))))
    ELSE MapInsert(MapInsert(MapNew, "type", JStr("link")), "properties",
                   JObj(MapInsert(MapNew, "href", JStr(crs.href))))

\* impl From<&Crs> for JsonObject
Crs_to_object(crs) ==
  LET crs_map ==
        IF crs.variant = "Named"
          THEN MapInsert(MapNew, "type", JStr("name"))
          ELSE MapInsert(MapNew, "type", JStr("link"))
      properties_map ==
        IF crs.variant = "Named"
          THEN MapInsert(MapNew, "name", JStr(crs.name))
          ELSE LET with_href == MapInsert(MapNew, "href", JStr(crs.href))
               IN  IF crs.type_.some
                     THEN MapInsert(with_href, "type", JStr(crs.type_.val))
                     ELSE with_href
  IN  MapInsert(crs_map, "properties", JObj(properties_map))

\* Crs::from_object matching on `type` before it reads `properties`
Crs_from_object_TypeFirst(object) ==
  LET type_ == expect_type(object)
      prop == expect_property(object, "properties")
      properties == IF prop.ok THEN expect_object(prop.v) ELSE prop
  IN  IF ~type_.ok THEN type_
      ELSE IF type_.v \notin { "name", "link" } THEN CrsUnknownType(type_.v)
      ELSE IF ~properties.ok THEN properties
      ELSE IF type_.v = "name"
        THEN LET Name(name) == IF ~name.ok THEN name ELSE Ok(Named(name.v))
                 String(p) == IF p.ok THEN expect_string(p.v) ELSE p
             IN  Name(String(expect_property(properties.v, "name")))
        ELSE LET String(p) == IF p.ok THEN expect_string(p.v) ELSE p
                 Link(href, link_type) ==
                   IF ~href.ok THEN href
                   ELSE IF ~link_type.some THEN Ok(Linked(href.v, None))
                   ELSE IF link_type.val.t # "str" THEN Err("ExpectedStringValue")
                   ELSE Ok(Linked(href.v, Some(link_type.val.s)))
             IN  Link(String(expect_property(properties.v, "href")),
                      MapGet(properties.v, "type"))

\* Crs::from_object taking a `properties.type` that is no string as absent
Crs_from_object_LenientLinkType(object) ==
  LET type_ == expect_type(object)
      prop == expect_property(object, "properties")
      properties == IF prop.ok THEN expect_object(prop.v) ELSE prop
  IN  IF ~type_.ok THEN type_
      ELSE IF ~properties.ok THEN properties
      ELSE IF type_.v = "name"
        THEN LET Name(name) == IF ~name.ok THEN name ELSE Ok(Named(name.v))
                 String(p) == IF p.ok THEN expect_string(p.v) ELSE p
             IN  Name(String(expect_property(properties.v, "name")))
      ELSE IF type_.v = "link"
        THEN LET String(p) == IF p.ok THEN expect_string(p.v) ELSE p
                 Link(href, link_type) ==
                   IF ~href.ok THEN href
                   ELSE IF ~link_type.some \/ link_type.val.t # "str"
                     THEN Ok(Linked(href.v, None))
                   ELSE Ok(Linked(href.v, Some(link_type.val.s)))
             IN  Link(String(expect_property(properties.v, "href")),
                      MapGet(properties.v, "type"))
      ELSE CrsUnknownType(type_.v)

\* impl FromObject for Crs
Crs_from_object(object) ==
  LET type_ == expect_type(object)
      prop == expect_property(object, "properties")
      properties == IF prop.ok THEN expect_object(prop.v) ELSE prop
      name_p == expect_property(properties.v, "name")
      name == IF name_p.ok THEN expect_string(name_p.v) ELSE name_p
      href_p == expect_property(properties.v, "href")
      href == IF href_p.ok THEN expect_string(href_p.v) ELSE href_p
      link_type == MapGet(properties.v, "type")
      link_type_s == expect_string(link_type.val)
  IN  IF ~type_.ok THEN type_
      ELSE IF ~properties.ok THEN properties
      ELSE CASE type_.v = "name" ->
                  IF ~name.ok THEN name ELSE Ok(Named(name.v))
             [] type_.v = "link" ->
                  IF ~href.ok THEN href
                  ELSE IF ~link_type.some THEN Ok(Linked(href.v, None))
                  ELSE IF ~link_type_s.ok THEN link_type_s
                  ELSE Ok(Linked(href.v, Some(link_type_s.v)))
             [] OTHER -> CrsUnknownType(type_.v)

get_crs(object) ==
  LET c == MapGet(object, "crs")
  IN  IF ~c.some THEN Ok(None)
      ELSE IF c.val.t # "obj" THEN Err("CrsExpectedObject")
      ELSE LET Wrapped(crs) == IF crs.ok THEN Ok(Some(crs.v)) ELSE crs
           IN  Wrapped(Crs_from_object(c.val.o))

(***************************************************************************)
(* Geometry.                                                               *)
(***************************************************************************)
GeometryKinds ==
  { "Point", "MultiPoint", "LineString", "MultiLineString", "Polygon",
    "MultiPolygon", "GeometryCollection" }

Point(p) == [kind |-> "Point", pos |-> p]

MultiPoint(l) == [kind |-> "MultiPoint", line |-> l]

LineString(l) == [kind |-> "LineString", line |-> l]

MultiLineString(r) == [kind |-> "MultiLineString", rings |-> r]

Polygon(r) == [kind |-> "Polygon", rings |-> r]

MultiPolygon(ps) == [kind |-> "MultiPolygon", polys |-> ps]

GeometryCollection(gs) == [kind |-> "GeometryCollection", geoms |-> gs]

\* struct Geometry
Geometry(bbox, foreign_members, val, crs) ==
  [bbox |-> bbox, foreign_members |-> foreign_members, value |-> val, crs |-> crs]

\* Geometry::new
Geometry_new(val) == Geometry(None, None, val, None)

\* serde_json::to_value of Position, Vec<Position>, ... and of Bbox
pos_to_value(p) == JArr([i \in 1..Len(p) |-> f64_to_value(p[i])])

line_to_value(l) == JArr([i \in 1..Len(l) |-> pos_to_value(l[i])])

rings_to_value(r) == JArr([i \in 1..Len(r) |-> line_to_value(r[i])])

polys_to_value(ps) == JArr([i \in 1..Len(ps) |-> rings_to_value(ps[i])])

RECURSIVE Geometry_to_object(_)

\* impl From<&Value> for JsonValue
Value_to_json(val) ==
  CASE val.kind = "Point" -> pos_to_value(val.pos)
    [] val.kind \in {"MultiPoint", "LineString"} -> line_to_value(val.line)
    [] val.kind \in {"MultiLineString", "Polygon"} -> rings_to_value(val.rings)
    [] val.kind = "MultiPolygon" -> polys_to_value(val.polys)
    [] val.kind = "GeometryCollection" ->
         JArr([i \in 1..Len(val.geoms) |-> JObj(Geometry_to_object(val.geoms[i]))])

\* a serializer that leaves the foreign members out
Geometry_to_object_NoForeign(geometry) ==
  LET WithCrs(map) ==
        IF geometry.crs.some
          THEN MapInsert(map, "crs", JObj(Crs_to_object(geometry.crs.val)))
          ELSE map
      WithBbox(map) ==
        IF geometry.bbox.some
          THEN MapInsert(map, "bbox", pos_to_value(geometry.bbox.val))
          ELSE map
      WithType(map) == MapInsert(map, "type", JStr(geometry.value.kind))
      WithValue(map) ==
        MapInsert(map,
                  IF geometry.value.kind = "GeometryCollection"
                    THEN "geometries" ELSE "coordinates",
                  Value_to_json(geometry.value))
  IN  WithValue(WithType(WithBbox(WithCrs(MapNew))))

\* a serializer that writes every payload under `coordinates`
Geometry_to_object_AlwaysCoordinates(geometry) ==
  LET WithCrs(map) ==
        IF geometry.crs.some
          THEN MapInsert(map, "crs", JObj(Crs_to_object(geometry.crs.val)))
          ELSE map
      WithBbox(map) ==
        IF geometry.bbox.some
          THEN MapInsert(map, "bbox", pos_to_value(geometry.bbox.val))
          ELSE map
      WithForeignMembers(map) ==
        IF geometry.foreign_members.some
          THEN MapInsertAll(map, geometry.foreign_members.val)
          ELSE map
      WithType(map) == MapInsert(map, "type", JStr(geometry.value.kind))
      WithValue(map) == MapInsert(map, "coordinates", Value_to_json(geometry.value))
  IN  WithValue(WithType(WithForeignMembers(WithBbox(WithCrs(MapNew)))))

\* a serializer that inserts the foreign members last
Geometry_to_object_ForeignLast(geometry) ==
  LET WithCrs(map) ==
        IF geometry.crs.some
          THEN MapInsert(map, "crs", JObj(Crs_to_object(geometry.crs.val)))
          ELSE map
      WithBbox(map) ==
        IF geometry.bbox.some
          THEN MapInsert(map, "bbox", pos_to_value(geometry.bbox.val))
          ELSE map
      WithForeignMembers(map) ==
        IF geometry.foreign_members.some
          THEN MapInsertAll(map, geometry.foreign_members.val)
          ELSE map
      WithType(map) == MapInsert(map, "type", JStr(geometry.value.kind))
      WithValue(map) ==
        MapInsert(map,
                  IF geometry.value.kind = "GeometryCollection"
                    THEN "geometries" ELSE "coordinates",
                  Value_to_json(geometry.value))
  IN  WithForeignMembers(WithValue(WithType(WithBbox(WithCrs(MapNew)))))

\* impl From<&Geometry> for JsonObject
Geometry_to_object(geometry) ==
  LET WithCrs(map) ==
        IF geometry.crs.some
          THEN MapInsert(map, "crs", JObj(Crs_to_object(geometry.crs.val)))
          ELSE map
      WithBbox(map) ==
        IF geometry.bbox.some
          THEN MapInsert(map, "bbox", pos_to_value(geometry.bbox.val))
          ELSE map
      WithForeignMembers(map) ==
        IF geometry.foreign_members.some
          THEN MapInsertAll(map, geometry.foreign_members.val)
          ELSE map
      WithType(map) == MapInsert(map, "type", JStr(geometry.value.kind))
      WithValue(map) ==
        MapInsert(map,
                  IF geometry.value.kind = "GeometryCollection"
                    THEN "geometries" ELSE "coordinates",
                  Value_to_json(geometry.value))
  IN  WithValue(WithType(WithForeignMembers(WithBbox(WithCrs(MapNew)))))

RECURSIVE Geometry_from_object(_)

get_geometries(object) ==
  LET p == expect_property(object, "geometries")
      arr == IF p.ok THEN expect_array(p.v) ELSE p
  IN  IF ~arr.ok THEN arr
      ELSE TryAll([i \in 1..Len(arr.v) |->
                    LET obj == expect_object(arr.v[i])
                    IN  IF obj.ok THEN Geometry_from_object(obj.v) ELSE obj])

\* the Value variant named by `type_` around parsed coordinates
Value_of(type_, coords) ==
  CASE type_ = "Point" -> Point(coords)
    [] type_ = "MultiPoint" -> MultiPoint(coords)
    [] type_ = "LineString" -> LineString(coords)
    [] type_ = "MultiLineString" -> MultiLineString(coords)
    [] type_ = "Polygon" -> Polygon(coords)
    [] type_ = "MultiPolygon" -> MultiPolygon(coords)
    [] type_ = "GeometryCollection" -> GeometryCollection(coords)

\* the match on `type` of Geometry::from_object, with Polygon read one array
\* level short
Geometry_match_type_WrongDepth(type_, object) ==
  LET Wrapped(coords) == IF coords.ok THEN Ok(Value_of(type_, coords.v)) ELSE coords
  IN  Wrapped(
        CASE type_ = "Point" -> get_coords_one_pos(object)
          [] type_ = "MultiPoint" -> get_coords_1d_pos(object)
          [] type_ = "LineString" -> get_coords_1d_pos(object)
          [] type_ = "MultiLineString" -> get_coords_2d_pos(object)
          [] type_ = "Polygon" -> get_coords_1d_pos(object)
          [] type_ = "MultiPolygon" -> get_coords_3d_pos(object)
          [] type_ = "GeometryCollection" -> get_geometries(object)
          [] OTHER -> Err("GeometryUnknownType"))

\* the match on `type` of Geometry::from_object, an unknown type reported with
\* the dispatcher's error
Geometry_match_type_WrongError(type_, object) ==
  LET Wrapped(coords) == IF coords.ok THEN Ok(Value_of(type_, coords.v)) ELSE coords
  IN  Wrapped(
        CASE type_ = "Point" -> get_coords_one_pos(object)
          [] type_ = "MultiPoint" -> get_coords_1d_pos(object)
          [] type_ = "LineString" -> get_coords_1d_pos(object)
          [] type_ = "MultiLineString" -> get_coords_2d_pos(object)
          [] type_ = "Polygon" -> get_coords_2d_pos(object)
          [] type_ = "MultiPolygon" -> get_coords_3d_pos(object)
          [] type_ = "GeometryCollection" -> get_geometries(object)
          [] OTHER -> Err("GeoJsonUnknownType"))

\* the match on `type` of Geometry::from_object: the Value, or the error
Geometry_match_type(type_, object) ==
  LET Wrapped(coords) == IF coords.ok THEN Ok(Value_of(type_, coords.v)) ELSE coords
  IN  Wrapped(
        CASE type_ = "Point" -> get_coords_one_pos(object)
          [] type_ = "MultiPoint" -> get_coords_1d_pos(object)
          [] type_ = "LineString" -> get_coords_1d_pos(object)
          [] type_ = "MultiLineString" -> get_coords_2d_pos(object)
          [] type_ = "Polygon" -> get_coords_2d_pos(object)
          [] type_ = "MultiPolygon" -> get_coords_3d_pos(object)
          [] type_ = "GeometryCollection" -> get_geometries(object)
          [] OTHER -> Err("GeometryUnknownType"))

\* Geometry::from_object keeping the whole object as the foreign members
Geometry_from_object_KeepAll(object) ==
  LET Build(val, bbox, crs) ==
        IF ~val.ok THEN val
        ELSE IF ~bbox.ok THEN bbox
        ELSE IF ~crs.ok THEN crs
        ELSE Ok(Geometry(bbox.v, Some(object), val.v, crs.v))
      Match(type_) ==
        IF ~type_.ok THEN type_
        ELSE Build(Geometry_match_type(type_.v, object), get_bbox(object),
                   get_crs(object))
  IN  Match(expect_type(object))

\* Geometry::from_object reading `crs` before `bbox` and the foreign members
Geometry_from_object_CrsFirst(object) ==
  LET Build(val, bbox, foreign_members, crs) ==
        IF ~val.ok THEN val
        ELSE IF ~crs.ok THEN crs
        ELSE IF ~bbox.ok THEN bbox
        ELSE IF ~foreign_members.ok THEN foreign_members
        ELSE Ok(Geometry(bbox.v, foreign_members.v, val.v, crs.v))
      Match(type_) ==
        IF ~type_.ok THEN type_
        ELSE Build(Geometry_match_type(type_.v, object), get_bbox(object),
                   get_foreign_members(object), get_crs(object))
  IN  Match(expect_type(object))

\* impl FromObject for Geometry
Geometry_from_object(object) ==
  LET Build(val, bbox, foreign_members, crs) ==
        IF ~val.ok THEN val
        ELSE IF ~bbox.ok THEN bbox
        ELSE IF ~foreign_members.ok THEN foreign_members
        ELSE IF ~crs.ok THEN crs
        ELSE Ok(Geometry(bbox.v, foreign_members.v, val.v, crs.v))
      Match(type_) ==
        IF ~type_.ok THEN type_
        ELSE Build(Geometry_match_type(type_.v, object), get_bbox(object),
                   get_foreign_members(object), get_crs(object))
  IN  Match(expect_type(object))

(***************************************************************************)
(* Feature and FeatureCollection.                                          *)
(***************************************************************************)
\* struct Feature
Feature(bbox, geometry, id, properties, crs) ==
  [bbox |-> bbox, geometry |-> geometry, id |-> id, properties |-> properties,
   crs |-> crs]

\* struct FeatureCollection
FeatureCollection(bbox, features, crs, foreign_members) ==
  [bbox |-> bbox, features |-> features, crs |-> crs,
   foreign_members |-> foreign_members]

get_geometry(object) ==
  LET g == MapGet(object, "geometry")
  IN  IF ~g.some \/ g.val.t = "null" THEN Ok(None)
      ELSE IF g.val.t # "obj" THEN Err("FeatureInvalidGeometryValue")
      ELSE LET Wrapped(geometry) ==
                 IF geometry.ok THEN Ok(Some(geometry.v)) ELSE geometry
           IN  Wrapped(Geometry_from_object(g.val.o))

get_properties(object) ==
  LET p == MapGet(object, "properties")
  IN  IF ~p.some \/ p.val.t = "null" THEN Ok(None)
      ELSE IF p.val.t # "obj" THEN Err("PropertiesExpectedObjectOrNull")
      ELSE Ok(Some(p.val.o))

get_id(object) == Ok(MapGet(object, "id"))

Feature_from_object(object) ==
  LET Build(geometry, properties, id, bbox, crs) ==
        IF ~geometry.ok THEN geometry
        ELSE IF ~properties.ok THEN properties
        ELSE IF ~id.ok THEN id
        ELSE IF ~bbox.ok THEN bbox
        ELSE IF ~crs.ok THEN crs
        ELSE Ok(Feature(bbox.v, geometry.v, id.v, properties.v, crs.v))
  IN  Build(get_geometry(object), get_properties(object), get_id(object),
            get_bbox(object), get_crs(object))

Feature_to_object(feature) ==
  LET WithCrs(map) ==
        IF feature.crs.some
          THEN MapInsert(map, "crs", JObj(Crs_to_object(feature.crs.val)))
          ELSE map
      WithBbox(map) ==
        IF feature.bbox.some
          THEN MapInsert(map, "bbox", pos_to_value(feature.bbox.val))
          ELSE map
      WithType(map) == MapInsert(map, "type", JStr("Feature"))
      WithGeometry(map) ==
        IF feature.geometry.some
          THEN MapInsert(map, "geometry",
                         JObj(Geometry_to_object(feature.geometry.val)))
          ELSE map
      WithProperties(map) ==
        IF feature.properties.some
          THEN MapInsert(map, "properties", JObj(feature.properties.val))
          ELSE map
      WithId(map) ==
        IF feature.id.some THEN MapInsert(map, "id", feature.id.val) ELSE map
  IN  WithId(WithProperties(WithGeometry(WithType(WithBbox(WithCrs(MapNew))))))

get_features(object) ==
  LET p == expect_property(object, "features")
      arr == IF p.ok THEN expect_array(p.v) ELSE p
  IN  IF ~arr.ok THEN arr
      ELSE TryAll([i \in 1..Len(arr.v) |->
                    LET obj == expect_object(arr.v[i])
                    IN  IF obj.ok THEN Feature_from_object(obj.v) ELSE obj])

FeatureCollection_from_object(object) ==
  LET Build(features, bbox, crs, foreign_members) ==
        IF ~features.ok THEN features
        ELSE IF ~bbox.ok THEN bbox
        ELSE IF ~crs.ok THEN crs
        ELSE IF ~foreign_members.ok THEN foreign_members
        ELSE Ok(FeatureCollection(bbox.v, features.v, crs.v, foreign_members.v))
  IN  Build(get_features(object), get_bbox(object), get_crs(object),
            get_foreign_members(object))

FeatureCollection_to_object(fc) ==
  LET WithCrs(map) ==
        IF fc.crs.some
          THEN MapInsert(map, "crs", JObj(Crs_to_object(fc.crs.val)))
          ELSE map
      WithBbox(map) ==
        IF fc.bbox.some
          THEN MapInsert(map, "bbox", pos_to_value(fc.bbox.val))
          ELSE map
      WithForeignMembers(map) ==
        IF fc.foreign_members.some
          THEN MapInsertAll(map, fc.foreign_members.val)
          ELSE map
      WithType(map) == MapInsert(map, "type", JStr("FeatureCollection"))
      WithFeatures(map) ==
        MapInsert(map, "features",
                  JArr([i \in 1..Len(fc.features) |->
                         JObj(Feature_to_object(fc.features[i]))]))
  IN  WithFeatures(WithType(WithForeignMembers(WithBbox(WithCrs(MapNew)))))

(***************************************************************************)
(* GeoJson: the top-level union and the text entry points.                 *)
(***************************************************************************)
GeoJsonGeometry(g) == [gj |-> "Geometry", geometry |-> g]

GeoJsonFeature(f) == [gj |-> "Feature", feature |-> f]

GeoJsonFeatureCollection(fc) == [gj |-> "FeatureCollection", fc |-> fc]

\* Result::map(GeoJson::Geometry), map(GeoJson::Feature), map(GeoJson::FeatureCollection)
Geometry_into_GeoJson(r) == IF r.ok THEN Ok(GeoJsonGeometry(r.v)) ELSE r

Feature_into_GeoJson(r) == IF r.ok THEN Ok(GeoJsonFeature(r.v)) ELSE r

FeatureCollection_into_GeoJson(r) == IF r.ok THEN Ok(GeoJsonFeatureCollection(r.v)) ELSE r

\* impl From<&GeoJson> for JsonObject
GeoJson_to_object(geojson) ==
  CASE geojson.gj = "Geometry" -> Geometry_to_object(geojson.geometry)
    [] geojson.gj = "Feature" -> Feature_to_object(geojson.feature)
    [] geojson.gj = "FeatureCollection" -> FeatureCollection_to_object(geojson.fc)

\* impl FromObject for GeoJson
GeoJson_from_object(object) ==
  LET p == expect_property(object, "type")
      type_ == IF p.ok THEN expect_string(p.v) ELSE p
  IN  IF ~type_.ok THEN type_
      ELSE CASE type_.v \in { "Point", "MultiPoint", "LineString", "MultiLineString",
                              "Polygon", "MultiPolygon" } ->
                  Geometry_into_GeoJson(Geometry_from_object(object))
             [] type_.v = "Feature" ->
                  Feature_into_GeoJson(Feature_from_object(object))
             [] type_.v = "FeatureCollection" ->
                  FeatureCollection_into_GeoJson(FeatureCollection_from_object(object))
             [] OTHER -> Err("GeoJsonUnknownType")

\* get_object reporting a top-level value that is no object as GeoJsonExpectedObject
get_object_ExpectedObject(s) ==
  LET Object(decoded_json) ==
        IF ~decoded_json.ok THEN Err("MalformedJson")
        ELSE IF decoded_json.v.t = "obj" THEN Ok(decoded_json.v.o)
        ELSE Err("GeoJsonExpectedObject")
  IN  Object(serde_from_str(s))

\* get_object handing on the error of the JSON parser as it is
get_object_SyntaxError(s) ==
  LET Object(decoded_json) ==
        IF ~decoded_json.ok THEN decoded_json
        ELSE IF decoded_json.v.t = "obj" THEN Ok(decoded_json.v.o)
        ELSE Err("MalformedJson")
  IN  Object(serde_from_str(s))

\* fn get_object
get_object(s) ==
  LET Object(decoded_json) ==
        IF ~decoded_json.ok THEN Err("MalformedJson")
        ELSE IF decoded_json.v.t = "obj" THEN Ok(decoded_json.v.o)
        ELSE Err("MalformedJson")
  IN  Object(serde_from_str(s))

\* impl FromStr for GeoJson
from_str(s) ==
  LET Parse(object) == IF ~object.ok THEN object ELSE GeoJson_from_object(object.v)
  IN  Parse(get_object(s))

\* impl Display for GeoJson: serde_json::to_string of the JsonObject
to_string(geojson) == Encode(JObj(GeoJson_to_object(geojson)))

(***************************************************************************)
(* The inputs: JSON texts, and typed values constructed directly.          *)
(***************************************************************************)
Nums == 0..MaxNum

RECURSIVE Wrap(_, _)
Wrap(x, d) == IF d = 0 THEN x ELSE JArr(<< Wrap(x, d - 1) >>)

\* well-formed Positions as written: float and integer literals
PositionTexts ==
  { JArr(<< JFloat(a), JInt(b) >>) : a \in Nums, b \in Nums } \cup { JArr(<< >>) }

\* what is no Position
BadLeaves ==
  { JStr("x"), JNull, JInt(0), JObj(<< >>), JArr(<< JStr("x") >>),
    JArr(<< JInt(0), JNull >>) }

\* coordinate payloads of every nesting depth, well-formed and not
Payloads ==
  { Wrap(b, d) : b \in PositionTexts \cup BadLeaves, d \in 0..MaxDepth }
    \cup { JArr(<< Wrap(JArr(<< JInt(0), JFloat(1) >>), d), Wrap(q, e) >>) :
             d \in 0..2, e \in 0..2, q \in { JArr(<< JInt(1) >>), JStr("x") } }
    \cup { JArr(<< JArr(<< JStr("x") >>), JStr("x") >>),
           JArr(<< JStr("x"), JArr(<< JStr("x") >>) >>) }

CoordinateKinds == GeometryKinds \ { "GeometryCollection" }

PayloadTexts ==
  { JObj(<< Member("type", JStr(k)), Member("coordinates", p) >>) :
      k \in CoordinateKinds, p \in Payloads }

\* objects whose `type` is unknown, not a string, or absent
TypeTexts ==
  { JObj(<< Member("type", ty), Member("coordinates", JArr(<< JInt(0), JInt(0) >>)) >>) :
      ty \in { JStr("Circle"), JStr("Foo"), JStr("name"), JStr("point"), JInt(0), JNull } }
    \cup { JObj(<< Member("type", JStr("Foo")) >>), JObj(<< Member("type", JStr("Circle")) >>),
           JObj(<< Member("coordinates", JArr(<< JInt(0), JInt(0) >>)) >>), JObj(<< >>),
           JObj(<< Member("type", JStr("Point")) >>),
           JObj(<< Member("type", JStr("Foo")), Member("type", JStr("Point")),
                   Member("coordinates", JArr(<< JInt(0), JInt(0) >>)) >>) }

NamedCrsText ==
  JObj(<< Member("type", JStr("name")),
          Member("properties", JObj(<< Member("name", JStr("urn")) >>)) >>)

LinkedCrsText ==
  JObj(<< Member("properties",
                 JObj(<< Member("type", JStr("proj4")), Member("href", JStr("h")) >>)),
          Member("type", JStr("link")) >>)

BboxTexts ==
  { << >>, << Member("bbox", JArr(<< JInt(0), JFloat(1) >>)) >>,
    << Member("bbox", JStr("x")) >>, << Member("bbox", JArr(<< JInt(0), JStr("x") >>)) >>,
    << Member("bbox", JArr(<< >>)) >> }

CrsTexts ==
  { << >>, << Member("crs", NamedCrsText) >>, << Member("crs", LinkedCrsText) >>,
    << Member("crs", JStr("x")) >>,
    << Member("crs", JObj(<< Member("type", JStr("foo")),
                             Member("properties", JObj(<< >>)) >>)) >>,
    << Member("crs", JObj(<< Member("type", JStr("name")) >>)) >> }

\* foreign members in the order the text lists them
ForeignTexts ==
  { << >>,
    << Member("foo", JStr("bar")) >>,
    << Member("foo", JInt(1)), Member("bar", JNull) >>,
    << Member("bar", JObj(<< Member("zap", JInt(1)), Member("bar", JFloat(0)) >>)),
       Member("foo", JStr("x")) >>,
    << Member("zap", JArr(<< JInt(0) >>)), Member("foo", JInt(0)), Member("bar", JInt(1)) >>,
    << Member("foo", JInt(0)), Member("foo", JInt(1)) >> }

Reverse(s) == [i \in 1..Len(s) |-> s[Len(s) + 1 - i]]

\* geometry objects with every combination of payload, bbox, crs and foreign
\* members, well-formed and not, the keys written in two orders
MemberTexts ==
  LET body(k, p, b, c, f) ==
        << Member("type", JStr(k)), Member("coordinates", p) >> \o b \o c \o f
      all == { body(kp[1], kp[2], b, c, f) :
                 kp \in { << "Point", JArr(<< JFloat(0), JInt(1) >>) >>,
                          << "Point", JArr(<< JArr(<< JInt(1), JInt(2) >>) >>) >>,
                          << "LineString", JArr(<< JArr(<< JInt(1), JInt(0) >>) >>) >> },
                 b \in BboxTexts, c \in CrsTexts, f \in ForeignTexts }
  IN  { JObj(m) : m \in all } \cup { JObj(Reverse(m)) : m \in all }

PointText == JObj(<< Member("type", JStr("Point")),
                     Member("coordinates", JArr(<< JFloat(1), JFloat(0) >>)) >>)

LineStringText ==
  JObj(<< Member("type", JStr("LineString")),
          Member("coordinates", JArr(<< JArr(<< JFloat(1), JFloat(0) >>),
                                       JArr(<< JFloat(0), JFloat(1) >>) >>)) >>)

CollectionText(children) ==
  JObj(<< Member("type", JStr("GeometryCollection")), Member("geometries", JArr(children)) >>)

\* the children a GeometryCollection input is built from
ChildTexts ==
  { PointText, LineStringText,
    JObj(<< Member("foo", JStr("bar")), Member("bbox", JArr(<< JInt(0), JInt(1) >>)),
            Member("crs", NamedCrsText),
            Member("coordinates", JArr(<< JArr(<< JInt(0) >>) >>)),
            Member("type", JStr("MultiPoint")) >>),
    JObj(<< Member("type", JStr("Polygon")), Member("coordinates", JArr(<< JInt(0) >>)) >>),
    JObj(<< Member("type", JStr("Circle")), Member("coordinates", JArr(<< JInt(0) >>)) >>),
    CollectionText(<< >>),
    CollectionText(<< LineStringText, CollectionText(<< PointText >>) >>),
    JStr("x") }

RECURSIVE SeqsUpTo(_, _)
SeqsUpTo(S, n) ==
  IF n = 0 THEN { << >> }
  ELSE LET shorter == SeqsUpTo(S, n - 1)
       IN  shorter \cup { Append(s, x) : s \in shorter, x \in S }

CollectionTexts ==
  { CollectionText(cs) : cs \in SeqsUpTo(ChildTexts, MaxChildren) }
    \cup { JObj(<< Member("type", JStr("GeometryCollection")) >>),
           JObj(<< Member("type", JStr("GeometryCollection")),
                   Member("geometries", PointText) >>),
           JObj(<< Member("type", JStr("GeometryCollection")),
                   Member("coordinates", JArr(<< JInt(0), JInt(0) >>)) >>),
           JObj(<< Member("zap", JInt(1)), Member("geometries", JArr(<< PointText >>)),
                   Member("bbox", JArr(<< JInt(0) >>)), Member("bar", JStr("x")),
                   Member("type", JStr("GeometryCollection")) >>) }

FeatureTexts ==
  { JObj(<< Member("type", JStr("Feature")) >> \o g \o p \o i) :
      g \in { << >>, << Member("geometry", JNull) >>, << Member("geometry", PointText) >>,
              << Member("geometry", JStr("x")) >>,
              << Member("geometry", JObj(<< Member("type", JStr("Circle")),
                                            Member("coordinates", JArr(<< JInt(0), JInt(0) >>)) >>)) >>,
              << Member("geometry", CollectionText(<< PointText, LineStringText >>)) >>,
              << Member("geometry",
                        CollectionText(<< CollectionText(<< CollectionText(<< >>), PointText >>),
                                          LineStringText >>)) >> },
      p \in { << >>, << Member("properties", JNull) >>, << Member("properties", JStr("x")) >>,
              << Member("properties", JObj(<< Member("name", JStr("x")) >>)) >> },
      i \in { << >>, << Member("id", JStr("x")) >> } }

FeatureText == JObj(<< Member("type", JStr("Feature")), Member("geometry", PointText) >>)

FeatureCollectionTexts ==
  { JObj(<< Member("type", JStr("FeatureCollection")) >> \o f) :
      f \in { << >>, << Member("features", JArr(<< >>)) >>,
              << Member("features", JArr(<< FeatureText >>)) >>,
              << Member("features", JArr(<< FeatureText, JStr("x") >>)) >>,
              << Member("features", JStr("x")) >>,
              << Member("features", JArr(<< FeatureText >>)), Member("foo", JInt(1)),
                 Member("bbox", JArr(<< JInt(0) >>)) >> } }

\* texts that are no JSON, or whose top-level value is no object
NonObjectTexts ==
  { Garbage, JArr(<< >>), JArr(<< PointText >>), JStr("Point"), JInt(0), JFloat(1),
    JBool(TRUE), JNull }

\* CRS objects, well-formed and not
CrsObjectTexts ==
  { JObj(ty \o pr) :
      ty \in { << >>, << Member("type", JStr("name")) >>, << Member("type", JStr("link")) >>,
               << Member("type", JStr("foo")) >>, << Member("type", JStr("Name")) >>,
               << Member("type", JInt(0)) >> },
      pr \in { << >>, << Member("properties", JStr("x")) >>,
               << Member("properties", JObj(<< >>)) >>,
               << Member("properties", JObj(<< Member("name", JStr("urn")) >>)) >>,
               << Member("properties", JObj(<< Member("name", JInt(0)) >>)) >>,
               << Member("properties", JObj(<< Member("href", JStr("h")) >>)) >>,
               << Member("properties", JObj(<< Member("href", JInt(0)) >>)) >>,
               << Member("properties", JObj(<< Member("href", JStr("h")),
                                               Member("type", JStr("proj4")) >>)) >>,
               << Member("properties", JObj(<< Member("type", JNull),
                                               Member("href", JStr("h")) >>)) >>,
               << Member("properties", JObj(<< Member("href", JStr("h")),
                                               Member("type", JInt(0)) >>)) >>,
               << Member("properties", JObj(<< Member("name", JStr("urn")),
                                               Member("href", JStr("h")),
                                               Member("type", JStr("proj4")) >>)) >> } }

Texts ==
  PayloadTexts \cup TypeTexts \cup MemberTexts \cup CollectionTexts \cup FeatureTexts
    \cup FeatureCollectionTexts \cup NonObjectTexts \cup CrsObjectTexts

\* typed values built directly (Geometry { .. }, Geometry::new, Crs::Named { .. })
Positions == { << a, b >> : a \in Nums, b \in Nums } \cup { << >> }

Lines == { << >> } \cup { << p >> : p \in Positions } \cup { << << 0, 1 >>, << 1, 0 >> >> }

Rings == { << >>, << << >> >>, << << << 0, 1 >>, << 1, 0 >> >> >>,
           << << << 0, 0 >> >>, << << 1, 1 >> >> >> }

Polys == { << >>, << << << << 0, 1 >> >> >> >>, << << >>, << << << 1, 0 >> >> >> >> }

CoordinateValues ==
  { Point(p) : p \in Positions }
    \cup { MultiPoint(l) : l \in Lines } \cup { LineString(l) : l \in Lines }
    \cup { MultiLineString(r) : r \in Rings } \cup { Polygon(r) : r \in Rings }
    \cup { MultiPolygon(ps) : ps \in Polys }

BuiltBboxes == { None, Some(<< 0, 1 >>) }

BuiltCrsOptions == { None, Some(Named("urn")), Some(Linked("h", Some("proj4"))) }

BuiltForeign ==
  { None, Some(<< Member("foo", JStr("bar")) >>),
    Some(<< Member("bar", JInt(1)), Member("foo", JNull), Member("zap", JArr(<< >>)) >>) }

BuiltLeaves ==
  { Geometry(b, f, val, c) :
      b \in BuiltBboxes, f \in BuiltForeign, val \in CoordinateValues, c \in BuiltCrsOptions }

BuiltChildren ==
  { Geometry_new(Point(<< 1, 0 >>)),
    Geometry_new(LineString(<< << 1, 0 >>, << 0, 1 >> >>)),
    Geometry(Some(<< 0, 1 >>), Some(<< Member("foo", JStr("bar")) >>),
             Polygon(<< >>), Some(Named("urn"))),
    Geometry_new(GeometryCollection(<< Geometry_new(Point(<< 0, 0 >>)) >>)) }

BuiltCollections ==
  { Geometry(b, f, GeometryCollection(gs), None) :
      b \in BuiltBboxes, f \in BuiltForeign, gs \in SeqsUpTo(BuiltChildren, MaxChildren) }

BuiltGeometries == BuiltLeaves \cup BuiltCollections

\* Geometry { .. } built with foreign members under the keys of typed fields
CollidingForeign ==
  { << Member("type", JStr("Polygon")) >>,
    << Member("coordinates", JStr("x")), Member("foo", JInt(1)) >>,
    << Member("geometries", JArr(<< >>)), Member("type", JStr("GeometryCollection")) >>,
    << Member("bbox", JStr("x")), Member("crs", JNull) >>,
    << Member("bbox", JArr(<< JFloat(1) >>)), Member("type", JInt(0)) >> }

BuiltColliding ==
  { Geometry(b, Some(f), val, c) :
      b \in BuiltBboxes, f \in CollidingForeign, c \in { None, Some(Named("urn")) },
      val \in { Point(<< 0, 1 >>), Polygon(<< >>), GeometryCollection(<< >>),
                GeometryCollection(<< Geometry_new(Point(<< 0, 0 >>)) >>) } }

CrsStrings == { "urn", "h", "proj4", "" }

BuiltCrs ==
  { Named(n) : n \in CrsStrings }
    \cup { Linked(h, ty) : h \in CrsStrings, ty \in { None } \cup { Some(x) : x \in CrsStrings } }

(***************************************************************************)
(* The state machine: a text is parsed by one of the three models, a       *)
(* parsed or built value is serialized, and the output is parsed again.    *)
(***************************************************************************)
NoText == [t |-> "none"]

NoResult == [ok |-> FALSE, err |-> "none"]

Init ==
  /\ output = NoText
  /\ again = NoResult
  /\ \/ /\ text \in Texts
        /\ entry = "none"
        /\ stage = "text"
        /\ value = NoResult
     \/ /\ text = NoText
        /\ entry = "GeoJson"
        /\ stage = "built"
        /\ value \in { Ok(GeoJsonGeometry(g)) : g \in BuiltGeometries }
     \/ /\ text = NoText
        /\ entry = "Geometry"
        /\ stage = "built"
        /\ value \in { Ok(g) : g \in BuiltGeometries \cup BuiltColliding }
     \/ /\ text = NoText
        /\ entry = "Crs"
        /\ stage = "built"
        /\ value \in { Ok(c) : c \in BuiltCrs }

\* str::parse::<GeoJson>() on the input text
FromStr ==
  /\ stage = "text"
  /\ entry' = "GeoJson"
  /\ value' = from_str(text)
  /\ stage' = "parsed"
  /\ UNCHANGED << text, output, again >>

\* Geometry::from_object on the object the text decodes to
GeometryFromObject ==
  /\ stage = "text"
  /\ get_object(text).ok
  /\ entry' = "Geometry"
  /\ value' = Geometry_from_object(get_object(text).v)
  /\ stage' = "parsed"
  /\ UNCHANGED << text, output, again >>

\* Crs::from_object on the object the text decodes to
CrsFromObject ==
  /\ stage = "text"
  /\ get_object(text).ok
  /\ entry' = "Crs"
  /\ value' = Crs_from_object(get_object(text).v)
  /\ stage' = "parsed"
  /\ UNCHANGED << text, output, again >>

\* GeoJson::to_string
GeoJsonToString ==
  /\ stage \in { "parsed", "built" }
  /\ entry = "GeoJson"
  /\ value.ok
  /\ output' = to_string(value.v)
  /\ stage' = "written"
  /\ UNCHANGED << text, entry, value, again >>

\* serde_json::to_string(&geometry)
GeometrySerialize ==
  /\ stage \in { "parsed", "built" }
  /\ entry = "Geometry"
  /\ value.ok
  /\ output' = Encode(JObj(Geometry_to_object(value.v)))
  /\ stage' = "written"
  /\ UNCHANGED << text, entry, value, again >>

\* serde_json::to_string(&crs)
CrsSerialize ==
  /\ stage \in { "parsed", "built" }
  /\ entry = "Crs"
  /\ value.ok
  /\ output' = Encode(JObj(Crs_to_object(value.v)))
  /\ stage' = "written"
  /\ UNCHANGED << text, entry, value, again >>

\* the output parsed again by the model that wrote it
FromStrAgain ==
  /\ stage = "written"
  /\ entry = "GeoJson"
  /\ again' = from_str(output)
  /\ stage' = "reparsed"
  /\ UNCHANGED << text, entry, value, output >>

GeometryFromObjectAgain ==
  /\ stage = "written"
  /\ entry = "Geometry"
  /\ again' = Geometry_from_object(get_object(output).v)
  /\ stage' = "reparsed"
  /\ UNCHANGED << text, entry, value, output >>

CrsFromObjectAgain ==
  /\ stage = "written"
  /\ entry = "Crs"
  /\ again' = Crs_from_object(get_object(output).v)
  /\ stage' = "reparsed"
  /\ UNCHANGED << text, entry, value, output >>

Next ==
  \/ FromStr
  \/ GeometryFromObject
  \/ CrsFromObject
  \/ GeoJsonToString
  \/ GeometrySerialize
  \/ CrsSerialize
  \/ FromStrAgain
  \/ GeometryFromObjectAgain
  \/ CrsFromObjectAgain

Spec == Init /\ [][Next]_vars

(***************************************************************************)
(* Properties.                                                             *)
(***************************************************************************)
\* the state was started from a text / from a value built directly
FromText == text # NoText

Built == text = NoText

IsObjectText(txt) == txt # Garbage /\ txt.t = "obj"

\* the object the input text decodes to
InputObject == Decode(text).o

HasStringType(object) == expect_type(object).ok

TypeOf(object) == expect_type(object).v

\* C1: round trip: for every Geometry value v built directly (any of the seven
\* variants, bbox, crs and foreign members present or absent) and wrapped in
\* GeoJson::Geometry, parsing the text that serializing v writes succeeds and
\* yields a value equal to v.
C1_RoundTrip ==
  (stage = "reparsed" /\ entry = "GeoJson" /\ Built) => again = value

\* C2: top-level dispatch: for a top-level object with a string `type`, parse
\* routes each of the seven geometry kinds to the Geometry model and returns the
\* Geometry variant, routes "Feature" to the Feature model and
\* "FeatureCollection" to the FeatureCollection model, and returns
\* GeoJsonUnknownType for every other string.
C2_Dispatch ==
  (stage = "parsed" /\ entry = "GeoJson" /\ IsObjectText(text)
     /\ HasStringType(InputObject)) =>
    LET ty == TypeOf(InputObject)
    IN  value =
          (CASE ty \in GeometryKinds ->
                  Geometry_into_GeoJson(Geometry_from_object(InputObject))
             [] ty = "Feature" ->
                  Feature_into_GeoJson(Feature_from_object(InputObject))
             [] ty = "FeatureCollection" ->
                  FeatureCollection_into_GeoJson(FeatureCollection_from_object(InputObject))
             [] OTHER -> Err("GeoJsonUnknownType"))

\* C3: malformed input: parse fails with MalformedJson exactly when the text is
\* not valid JSON or its top-level value is not an object; such input gets no
\* other error (not GeoJsonExpectedObject), and no object input gets
\* MalformedJson.
C3_MalformedJson ==
  (stage = "parsed" /\ entry = "GeoJson") =>
    /\ ~IsObjectText(text) => value = Err("MalformedJson")
    /\ IsObjectText(text) => value # Err("MalformedJson")

\* a top-level array was parsed and refused as MalformedJson
C3_Witness ==
  /\ stage = "parsed"
  /\ entry = "GeoJson"
  /\ text = JArr(<< PointText >>)
  /\ value = Err("MalformedJson")

CircleText ==
  JObj(<< Member("type", JStr("Circle")), Member("coordinates", JArr(<< JInt(0), JInt(0) >>)) >>)

\* C4: unknown discriminant: Geometry::from_object on an object whose `type`
\* string is none of the seven geometry kinds, such as
\* {"type":"Circle","coordinates":[0,0]}, fails with GeometryUnknownType, and
\* parsing {"type":"Foo"} at top level fails with GeoJsonUnknownType.
C4_UnknownType ==
  /\ (stage = "parsed" /\ entry = "Geometry" /\ HasStringType(InputObject)
        /\ TypeOf(InputObject) \notin GeometryKinds)
       => value = Err("GeometryUnknownType")
  /\ (stage = "parsed" /\ entry = "GeoJson"
        /\ text = JObj(<< Member("type", JStr("Foo")) >>))
       => value = Err("GeoJsonUnknownType")

\* the Circle object was given to the Geometry model and refused
C4_Witness ==
  /\ stage = "parsed"
  /\ entry = "Geometry"
  /\ text = CircleText
  /\ value = Err("GeometryUnknownType")

\* array levels above a Position in the `coordinates` of each kind
DepthOf(kind) ==
  CASE kind = "Point" -> 0
    [] kind \in { "MultiPoint", "LineString" } -> 1
    [] kind \in { "MultiLineString", "Polygon" } -> 2
    [] kind = "MultiPolygon" -> 3

\* json is arrays nested exactly d levels above Positions, numbers at the leaves
RECURSIVE IsShape(_, _)
IsShape(json, d) ==
  /\ json.t = "arr"
  /\ \A i \in 1..Len(json.a) :
       IF d = 0 THEN json.a[i].t = "num" ELSE IsShape(json.a[i], d - 1)

\* the same arrays with every number as an f64
RECURSIVE AsFloats(_)
AsFloats(json) ==
  CASE json.t = "num" -> JFloat(json.n)
    [] json.t = "arr" -> JArr([i \in 1..Len(json.a) |-> AsFloats(json.a[i])])
    [] OTHER -> json

\* the Geometry a successful parse result holds
ParsedGeometry == IF entry = "GeoJson" THEN value.v.geometry ELSE value.v

\* a geometry object of a coordinate kind with a `coordinates` member was parsed
ParsedCoordinateObject ==
  /\ stage = "parsed"
  /\ entry \in { "GeoJson", "Geometry" }
  /\ IsObjectText(text)
  /\ HasStringType(InputObject)
  /\ TypeOf(InputObject) \in CoordinateKinds
  /\ MapContains(InputObject, "coordinates")

\* C5: shape rejection: for each of the six coordinate kinds a parse succeeds
\* only if `coordinates` has exactly the nesting depth of the kind with numbers
\* at the leaves, and then the value is of that kind and holds those
\* coordinates; any other shape, such as a Point with [[1,2]], fails with
\* ExpectedF64Value or ExpectedArrayValue and yields no value.
C5_ShapeRejection ==
  ParsedCoordinateObject =>
    LET ty == TypeOf(InputObject)
        coords == MapGet(InputObject, "coordinates").val
    IN  /\ value.ok =>
              /\ IsShape(coords, DepthOf(ty))
              /\ ParsedGeometry.value.kind = ty
              /\ Value_to_json(ParsedGeometry.value) = AsFloats(coords)
        /\ ~IsShape(coords, DepthOf(ty)) =>
              /\ ~value.ok
              /\ value.err \in { "ExpectedF64Value", "ExpectedArrayValue" }

\* a Point with coordinates [[1,2]] was parsed and refused
C5_Witness ==
  /\ stage = "parsed"
  /\ entry = "GeoJson"
  /\ text = JObj(<< Member("type", JStr("Point")),
                    Member("coordinates", JArr(<< JArr(<< JInt(1), JInt(2) >>) >>)) >>)
  /\ value = Err("ExpectedF64Value")

\* the keys the Geometry model reads into typed fields
GeometryReserved == { "type", "coordinates", "geometries", "bbox", "crs" }

PayloadKey(kind) == IF kind = "GeometryCollection" THEN "geometries" ELSE "coordinates"

\* a geometry object was parsed into a Geometry (and maybe written again)
ParsedGeometryOk ==
  /\ FromText
  /\ stage \in { "parsed", "written", "reparsed" }
  /\ entry \in { "GeoJson", "Geometry" }
  /\ value.ok
  /\ entry = "GeoJson" => value.v.gj = "Geometry"

\* every key of the object outside the reserved ones is a foreign member of g
\* with the value the object gives it, and so for the children of a collection
RECURSIVE ForeignKept(_, _)
ForeignKept(object, g) ==
  /\ \A k \in Keys(object) \ GeometryReserved :
       /\ g.foreign_members.some
       /\ MapGet(g.foreign_members.val, k) = MapGet(object, k)
  /\ g.value.kind = "GeometryCollection" =>
       \A i \in 1..Len(g.value.geoms) :
         ForeignKept(MapGet(object, "geometries").val.a[i].o, g.value.geoms[i])

\* every such key of the object is a member of the written object with the same
\* value, next to `type` and the payload key, and so for the children
RECURSIVE ForeignWritten(_, _, _)
ForeignWritten(object, g, written) ==
  /\ \A k \in Keys(object) \ GeometryReserved : MapGet(written, k) = MapGet(object, k)
  /\ MapGet(written, "type") = Some(JStr(g.value.kind))
  /\ MapContains(written, PayloadKey(g.value.kind))
  /\ g.value.kind = "GeometryCollection" =>
       /\ Len(MapGet(written, "geometries").val.a) = Len(g.value.geoms)
       /\ \A i \in 1..Len(g.value.geoms) :
            ForeignWritten(MapGet(object, "geometries").val.a[i].o, g.value.geoms[i],
                           MapGet(written, "geometries").val.a[i].o)

\* C6: foreign member preservation: for every geometry object that parses, each
\* key of the input object that is not reserved is in foreign_members with its
\* JSON value, and serializing the parsed value writes every such member with
\* the same value alongside `type` and `coordinates` / `geometries`.
C6_ForeignPreserved ==
  ParsedGeometryOk =>
    /\ ForeignKept(InputObject, ParsedGeometry)
    /\ stage \in { "written", "reparsed" } =>
         /\ output.t = "obj"
         /\ ForeignWritten(InputObject, ParsedGeometry, Decode(output).o)

\* {"type":"Point","coordinates":[..],"foo":"bar"} was parsed and written with foo
C6_Witness ==
  /\ ParsedGeometryOk
  /\ stage = "written"
  /\ ParsedGeometry.value.kind = "Point"
  /\ Keys(InputObject) = { "type", "coordinates", "foo" }
  /\ MapGet(InputObject, "foo") = Some(JStr("bar"))
  /\ ParsedGeometry.foreign_members = Some(<< Member("foo", JStr("bar")) >>)
  /\ Keys(Decode(output).o) = { "type", "coordinates", "foo" }
  /\ MapGet(Decode(output).o, "foo") = Some(JStr("bar"))

\* foreign_members of g, and of every Geometry nested in g, has no reserved key
RECURSIVE NoReservedForeign(_)
NoReservedForeign(g) ==
  /\ g.foreign_members.some =>
       Keys(g.foreign_members.val)
         \cap { "type", PayloadKey(g.value.kind), "bbox", "crs" } = { }
  /\ g.value.kind = "GeometryCollection" =>
       \A i \in 1..Len(g.value.geoms) : NoReservedForeign(g.value.geoms[i])

\* the Geometry values a parse result holds
GeometriesIn(e, result) ==
  IF ~result.ok \/ e = "Crs" THEN { }
  ELSE IF e = "Geometry" THEN { result.v }
  ELSE CASE result.v.gj = "Geometry" -> { result.v.geometry }
         [] result.v.gj = "Feature" ->
              IF result.v.feature.geometry.some
                THEN { result.v.feature.geometry.val } ELSE { }
         [] result.v.gj = "FeatureCollection" ->
              { result.v.fc.features[i].geometry.val :
                  i \in { j \in 1..Len(result.v.fc.features) :
                            result.v.fc.features[j].geometry.some } }

\* the Geometry values of this state that a parse produced
ParsedGeometries ==
  (IF FromText /\ stage # "text" THEN GeometriesIn(entry, value) ELSE { })
    \cup (IF stage = "reparsed" THEN GeometriesIn(entry, again) ELSE { })

\* C7: reserved keys are never foreign members: for every Geometry produced by
\* parsing, at top level or nested in a GeometryCollection, foreign_members has
\* none of `type`, `coordinates` / `geometries` (the payload key of its kind),
\* `bbox`, `crs`.
C7_NoReservedForeign == \A g \in ParsedGeometries : NoReservedForeign(g)

\* a collection was parsed whose child has a bbox, a crs and foreign members
C7_Witness ==
  /\ stage = "parsed"
  /\ entry = "Geometry"
  /\ value.ok
  /\ value.v.value.kind = "GeometryCollection"
  /\ \E i \in 1..Len(value.v.value.geoms) :
       /\ value.v.value.geoms[i].foreign_members = Some(<< Member("foo", JStr("bar")) >>)
       /\ value.v.value.geoms[i].bbox.some
       /\ value.v.value.geoms[i].crs.some

KeySeq(m) == [i \in 1..Len(m) |-> m[i].k]

\* the foreign keys of an object's members, in the order of the members
ForeignKeySeq(members) == KeySeq(SelectSeq(members, LAMBDA e : e.k \notin GeometryReserved))

NoDuplicateKeys(members) ==
  \A i \in 1..Len(members) : \A j \in 1..Len(members) :
    i # j => members[i].k # members[j].k

IsAscending(keys) ==
  \A i \in 1..Len(keys) : \A j \in 1..Len(keys) : i < j => KeyLess(keys[i], keys[j])

Range(f) == { f[i] : i \in DOMAIN f }

\* the keys of the foreign members the parsed Geometry holds, in its order
HeldForeignKeys ==
  IF ParsedGeometry.foreign_members.some
    THEN KeySeq(ParsedGeometry.foreign_members.val)
    ELSE << >>

\* C8 as stated: foreign-member key order is preserved: when the input object
\* lists foreign members in the order k1, ..., kn, the parsed value holds them
\* in that order and the serialized output lists them in the same order.
C8_InputOrderPreserved ==
  (ParsedGeometryOk /\ NoDuplicateKeys(text.o)) =>
    /\ HeldForeignKeys = ForeignKeySeq(text.o)
    /\ stage \in { "written", "reparsed" } =>
         ForeignKeySeq(output.o) = ForeignKeySeq(text.o)

\* C8 as amended: the parsed value holds the foreign members of the input in
\* ascending key order and the serialized output lists them in that ascending
\* order, whatever order the input lists them in; so the order of the input is
\* kept exactly when the input lists them in ascending key order.
C8_KeyOrderSorted ==
  ParsedGeometryOk =>
    /\ IsAscending(HeldForeignKeys)
    /\ Range(HeldForeignKeys) = Range(ForeignKeySeq(text.o))
    /\ stage \in { "written", "reparsed" } => ForeignKeySeq(output.o) = HeldForeignKeys
    /\ NoDuplicateKeys(text.o) =>
         (HeldForeignKeys = ForeignKeySeq(text.o) <=> IsAscending(ForeignKeySeq(text.o)))

\* an input listing foo before bar was parsed and written with bar before foo
C8_Witness ==
  /\ ParsedGeometryOk
  /\ stage = "written"
  /\ ForeignKeySeq(text.o) = << "foo", "bar" >>
  /\ HeldForeignKeys = << "bar", "foo" >>
  /\ ForeignKeySeq(output.o) = << "bar", "foo" >>

\* C9: recursive collection: a GeometryCollection object whose `geometries`
\* array has n geometry objects parses, through the parse entry point, into a
\* GeometryCollection value with n nested Geometry values of the matching
\* variants in input order, each parsed as a full Geometry; serializing writes
\* the children under `geometries` in the same order.
C9_CollectionParsed ==
  (stage \in { "parsed", "written" } /\ entry = "GeoJson" /\ IsObjectText(text)
     /\ HasStringType(InputObject) /\ TypeOf(InputObject) = "GeometryCollection"
     /\ Geometry_from_object(InputObject).ok) =>
    LET children == MapGet(InputObject, "geometries").val.a
    IN  /\ value.ok
        /\ value.v.gj = "Geometry"
        /\ value.v.geometry.value.kind = "GeometryCollection"
        /\ Len(value.v.geometry.value.geoms) = Len(children)
        /\ \A i \in 1..Len(children) :
             /\ Ok(value.v.geometry.value.geoms[i]) = Geometry_from_object(children[i].o)
             /\ value.v.geometry.value.geoms[i].value.kind = TypeOf(children[i].o)
        /\ stage = "written" =>
             MapGet(Decode(output).o, "geometries").val
               = JArr([i \in 1..Len(children) |->
                        JObj(Geometry_to_object(value.v.geometry.value.geoms[i]))])

\* the JSON object a Crs is to be written as: {type, properties} and no more
CrsObjectAsClaimed(c, object) ==
  /\ Keys(object) = { "type", "properties" }
  /\ MapGet(object, "properties").val.t = "obj"
  /\ LET properties == MapGet(object, "properties").val.o
     IN  IF c.variant = "Named"
           THEN /\ MapGet(object, "type") = Some(JStr("name"))
                /\ Keys(properties) = { "name" }
                /\ MapGet(properties, "name") = Some(JStr(c.name))
           ELSE /\ MapGet(object, "type") = Some(JStr("link"))
                /\ Keys(properties) = { "href" } \cup (IF c.type_.some THEN { "type" } ELSE { })
                /\ MapGet(properties, "href") = Some(JStr(c.href))
                /\ c.type_.some => MapGet(properties, "type") = Some(JStr(c.type_.val))

\* C10: CRS round trip: every Crs value c (Named, Linked with and without
\* type_) is written as {type, properties} with type "name" and properties.name
\* for Named, type "link" and properties.href, plus properties.type only when
\* type_ is present, for Linked, and parsing that object returns c.
C10_CrsRoundTrip ==
  (entry = "Crs" /\ Built) =>
    /\ stage \in { "written", "reparsed" } =>
         /\ output.t = "obj"
         /\ CrsObjectAsClaimed(value.v, Decode(output).o)
    /\ stage = "reparsed" => again = value

\* a Linked CRS with a type_ was written and parsed back
C10_Witness ==
  /\ entry = "Crs"
  /\ Built
  /\ stage = "reparsed"
  /\ value.v = Linked("h", Some("proj4"))
  /\ again = Ok(Linked("h", Some("proj4")))

\* a CRS object whose `type` is a string other than "name" and "link" was parsed
ParsedUnknownCrs ==
  /\ stage = "parsed"
  /\ entry = "Crs"
  /\ HasStringType(InputObject)
  /\ TypeOf(InputObject) \notin { "name", "link" }

\* C11 as stated: CRS unknown type: parsing a CRS object whose `type` is any
\* string other than "name" or "link" fails with CrsUnknownType carrying exactly
\* that string, whatever the other members are, also when `properties` is
\* absent or not an object.
C11_UnknownTypeAlways ==
  ParsedUnknownCrs => value = CrsUnknownType(TypeOf(InputObject))

\* C11 as amended: `properties` is read before `type` is matched: such a CRS
\* object fails with ExpectedProperty when it has no `properties`, with
\* ExpectedObjectValue when `properties` is not an object, and otherwise with
\* CrsUnknownType carrying exactly the offending string, whatever `properties`
\* holds.
C11_UnknownTypeAfterProperties ==
  ParsedUnknownCrs =>
    value =
      (IF "properties" \notin Keys(InputObject) THEN Err("ExpectedProperty")
       ELSE IF MapGet(InputObject, "properties").val.t # "obj"
         THEN Err("ExpectedObjectValue")
       ELSE [ok |-> FALSE, err |-> "CrsUnknownType", arg |-> TypeOf(InputObject)])

\* {"type":"Name","properties":{"name":"urn"}} was parsed and refused with "Name"
C11_Witness ==
  /\ ParsedUnknownCrs
  /\ TypeOf(InputObject) = "Name"
  /\ MapGet(InputObject, "properties") = Some(JObj(<< Member("name", JStr("urn")) >>))
  /\ value = [ok |-> FALSE, err |-> "CrsUnknownType", arg |-> "Name"]

\* a sequence of f64
IsF64Seq(p) == \A i \in 1..Len(p) : p[i] \in Int

\* sequences nested d levels above Positions
RECURSIVE IsNested(_, _)
IsNested(x, d) ==
  IF d = 0 THEN IsF64Seq(x) ELSE \A i \in 1..Len(x) : IsNested(x[i], d - 1)

RECURSIVE IsJson(_)
IsJson(json) ==
  CASE json.t \in { "null", "bool", "str" } -> TRUE
    [] json.t = "num" -> json.n \in Int
    [] json.t = "arr" -> \A i \in 1..Len(json.a) : IsJson(json.a[i])
    [] json.t = "obj" ->
         /\ IsSortedMap(json.o)
         /\ \A i \in 1..Len(json.o) : IsJson(json.o[i].v)
    [] OTHER -> FALSE

IsOptionOf(opt, Holds(_)) ==
  IF opt.some THEN DOMAIN opt = { "some", "val" } /\ Holds(opt.val)
  ELSE opt = None

IsCrs(c) ==
  IF c.variant = "Named"
    THEN DOMAIN c = { "variant", "name" } /\ c.name \in STRING
    ELSE /\ c.variant = "Linked"
         /\ DOMAIN c = { "variant", "href", "type_" }
         /\ c.href \in STRING
         /\ IsOptionOf(c.type_, LAMBDA ty : ty \in STRING)

\* a map of JSON values holding none of the keys `reserved`
IsForeign(m, reserved) ==
  /\ IsSortedMap(m)
  /\ Keys(m) \cap reserved = { }
  /\ \A i \in 1..Len(m) : IsJson(m[i].v)

\* a Geometry whose value has the shape of its variant, and so its children
RECURSIVE IsGeometry(_)
IsGeometry(g) ==
  /\ DOMAIN g = { "bbox", "foreign_members", "value", "crs" }
  /\ IsOptionOf(g.bbox, IsF64Seq)
  /\ IsOptionOf(g.crs, IsCrs)
  /\ g.value.kind \in GeometryKinds
  /\ IsOptionOf(g.foreign_members,
                LAMBDA m : IsForeign(m, { "type", PayloadKey(g.value.kind), "bbox", "crs" }))
  /\ CASE g.value.kind = "Point" ->
             DOMAIN g.value = { "kind", "pos" } /\ IsNested(g.value.pos, 0)
        [] g.value.kind \in { "MultiPoint", "LineString" } ->
             DOMAIN g.value = { "kind", "line" } /\ IsNested(g.value.line, 1)
        [] g.value.kind \in { "MultiLineString", "Polygon" } ->
             DOMAIN g.value = { "kind", "rings" } /\ IsNested(g.value.rings, 2)
        [] g.value.kind = "MultiPolygon" ->
             DOMAIN g.value = { "kind", "polys" } /\ IsNested(g.value.polys, 3)
        [] g.value.kind = "GeometryCollection" ->
             /\ DOMAIN g.value = { "kind", "geoms" }
             /\ \A i \in 1..Len(g.value.geoms) : IsGeometry(g.value.geoms[i])

IsFeature(f) ==
  /\ DOMAIN f = { "bbox", "geometry", "id", "properties", "crs" }
  /\ IsOptionOf(f.bbox, IsF64Seq)
  /\ IsOptionOf(f.crs, IsCrs)
  /\ IsOptionOf(f.geometry, IsGeometry)
  /\ IsOptionOf(f.id, IsJson)
  /\ IsOptionOf(f.properties, LAMBDA m : IsForeign(m, { }))

IsFeatureCollection(fc) ==
  /\ DOMAIN fc = { "bbox", "features", "crs", "foreign_members" }
  /\ IsOptionOf(fc.bbox, IsF64Seq)
  /\ IsOptionOf(fc.crs, IsCrs)
  /\ \A i \in 1..Len(fc.features) : IsFeature(fc.features[i])
  /\ IsOptionOf(fc.foreign_members,
                LAMBDA m : IsForeign(m, { "type", "features", "bbox", "crs" }))

\* exactly one of the three families is active, and it is fully typed
IsGeoJson(v) ==
  CASE v.gj = "Geometry" -> DOMAIN v = { "gj", "geometry" } /\ IsGeometry(v.geometry)
    [] v.gj = "Feature" -> DOMAIN v = { "gj", "feature" } /\ IsFeature(v.feature)
    [] v.gj = "FeatureCollection" ->
         DOMAIN v = { "gj", "fc" } /\ IsFeatureCollection(v.fc)
    [] OTHER -> FALSE

\* exactly one error of the closed taxonomy, CrsUnknownType alone with a payload
IsError(result) ==
  /\ result.err \in Error
  /\ IF result.err = "CrsUnknownType"
       THEN DOMAIN result = { "ok", "err", "arg" } /\ result.arg \in STRING
       ELSE DOMAIN result = { "ok", "err" }

\* a result is a fully typed value of the model `e`, or one error
IsValueOrError(e, result) ==
  IF result.ok
    THEN /\ DOMAIN result = { "ok", "v" }
         /\ CASE e = "GeoJson" -> IsGeoJson(result.v)
              [] e = "Geometry" -> IsGeometry(result.v)
              [] e = "Crs" -> IsCrs(result.v)
    ELSE IsError(result)

\* C12: no panic, no partial result: for every input text, parse ends with
\* either a fully-typed value satisfying the shape invariants or exactly one
\* error of the closed taxonomy of 15 kinds, also for malformed input and for
\* GeometryCollections nested to any depth the inputs reach; and so does a
\* parse of what was written from a parsed value.
C12_ValueOrError ==
  /\ stage \in { "parsed", "written", "reparsed" } /\ FromText
       => IsValueOrError(entry, value)
  /\ stage = "reparsed" => IsValueOrError(entry, again)

\* a Feature whose geometry is a collection in a collection in a collection was
\* parsed into typed values
C12_Witness ==
  /\ stage = "parsed"
  /\ entry = "GeoJson"
  /\ value.ok
  /\ value.v.gj = "Feature"
  /\ value.v.feature.geometry.some
  /\ value.v.feature.geometry.val.value.kind = "GeometryCollection"
  /\ Len(value.v.feature.geometry.val.value.geoms) = 2
  /\ value.v.feature.geometry.val.value.geoms[1].value
       = GeometryCollection(<< Geometry_new(GeometryCollection(<< >>)),
                               Geometry_new(Point(<< 1, 0 >>)) >>)

\* a Geometry, parsed or built, was written
SerializedGeometry ==
  /\ stage \in { "written", "reparsed" }
  /\ entry \in { "GeoJson", "Geometry" }
  /\ value.ok
  /\ entry = "GeoJson" => value.v.gj = "Geometry"

\* the members the claimed serializer inserts for g, in the order it inserts them
InsertedMembers(g) ==
  (IF g.crs.some THEN << Member("crs", JObj(Crs_to_object(g.crs.val))) >> ELSE << >>)
    \o (IF g.bbox.some THEN << Member("bbox", pos_to_value(g.bbox.val)) >> ELSE << >>)
    \o (IF g.foreign_members.some THEN g.foreign_members.val ELSE << >>)
    \o << Member("type", JStr(g.value.kind)) >>
    \o << Member(PayloadKey(g.value.kind), Value_to_json(g.value)) >>

\* the value of the last member of `members` under key k
LastInserted(members, k) ==
  LET last == CHOOSE i \in 1..Len(members) :
                /\ members[i].k = k
                /\ \A j \in (i + 1)..Len(members) : members[j].k # k
  IN  members[last].v

\* what is written for the object that lists the members of the input text in
\* the opposite order
WrittenForReversedInput ==
  LET object == Decode(JObj(Reverse(text.o))).o
  IN  IF entry = "GeoJson"
        THEN to_string(GeoJson_from_object(object).v)
        ELSE Encode(JObj(Geometry_to_object(Geometry_from_object(object).v)))

\* C13: canonical serialization of a Geometry: the written object is what
\* inserting `crs` (iff present), `bbox` (iff present), every foreign member,
\* `type` (the name of the active variant) and then the payload, under
\* `geometries` iff the variant is GeometryCollection and under `coordinates`
\* otherwise, in this order, leaves: each key once, with the value inserted
\* last under it; and the text written for a parsed Geometry is the same when
\* the input lists its keys in the opposite order.
C13_CanonicalSerialization ==
  SerializedGeometry =>
    LET g == ParsedGeometry
        inserted == InsertedMembers(g)
        written == output.o
    IN  /\ output.t = "obj"
        /\ NoDuplicateKeys(written)
        /\ Keys(written) = Keys(inserted)
        /\ \A k \in Keys(written) :
             MapGet(written, k).val = Encode(LastInserted(inserted, k))
        /\ "crs" \in Keys(written) <=>
             g.crs.some \/ (g.foreign_members.some /\ "crs" \in Keys(g.foreign_members.val))
        /\ "bbox" \in Keys(written) <=>
             g.bbox.some \/ (g.foreign_members.some /\ "bbox" \in Keys(g.foreign_members.val))
        /\ IF g.value.kind = "GeometryCollection"
             THEN /\ MapGet(written, "geometries").val.t = "arr"
                  /\ Len(MapGet(written, "geometries").val.a) = Len(g.value.geoms)
             ELSE MapGet(written, "coordinates").val = Value_to_json(g.value)
        /\ (FromText /\ NoDuplicateKeys(text.o)) => output = WrittenForReversedInput

\* a Geometry parsed from a text that lists `type` first and two foreign members
\* last, with a bbox and a crs, was written
C13_Witness ==
  /\ SerializedGeometry
  /\ FromText
  /\ stage = "written"
  /\ NoDuplicateKeys(text.o)
  /\ text.o[1].k = "type"
  /\ ParsedGeometry.bbox.some
  /\ ParsedGeometry.crs.some
  /\ KeySeq(output.o) = << "bar", "bbox", "coordinates", "crs", "foo", "type" >>

\* C16: typed discriminator and payload win over colliding foreign members: for
\* every Geometry value, also one built directly whose foreign_members holds
\* `type`, `coordinates` or `geometries`, the `type` of the written object is
\* the name of the active variant and the payload key of the variant holds the
\* serialized value, and the match on `type` of Geometry::from_object reads the
\* written object back as the same variant with the same value.
C16_TypedFieldsWin ==
  SerializedGeometry =>
    LET g == ParsedGeometry
        written == Decode(output).o
    IN  /\ MapGet(written, "type") = Some(JStr(g.value.kind))
        /\ MapGet(written, PayloadKey(g.value.kind)) = Some(Value_to_json(g.value))
        /\ Geometry_match_type(g.value.kind, written) = Ok(g.value)
        /\ expect_type(written) = Ok(g.value.kind)

\* a Point built with the foreign member "type": "Polygon" was written as a Point
C16_Witness ==
  /\ Built
  /\ entry = "Geometry"
  /\ stage = "written"
  /\ value.v.value = Point(<< 0, 1 >>)
  /\ value.v.foreign_members = Some(<< Member("type", JStr("Polygon")) >>)
  /\ MapGet(output.o, "type") = Some(JStr("Point"))

Min(S) == CHOOSE x \in S : \A y \in S : x <= y

\* the error of walking json as arrays d levels above Positions: of the first
\* element, in array order, that is not as required; "none" when all are
RECURSIVE ShapeError(_, _)
ShapeError(json, d) ==
  IF json.t # "arr" THEN "ExpectedArrayValue"
  ELSE LET bad == { i \in 1..Len(json.a) :
                     IF d = 0 THEN json.a[i].t # "num"
                     ELSE ShapeError(json.a[i], d - 1) # "none" }
       IN  IF bad = { } THEN "none"
           ELSE IF d = 0 THEN "ExpectedF64Value"
           ELSE ShapeError(json.a[Min(bad)], d - 1)

\* the failure of the check of `type`, of `bbox` and of `crs`: empty when the
\* check passes
TypeErrors(object) ==
  IF "type" \notin Keys(object) THEN { Err("ExpectedProperty") }
  ELSE IF MapGet(object, "type").val.t # "str" THEN { Err("ExpectedStringValue") }
  ELSE IF MapGet(object, "type").val.s \notin GeometryKinds
    THEN { Err("GeometryUnknownType") }
  ELSE { }

BboxErrors(object) ==
  IF "bbox" \notin Keys(object) THEN { }
  ELSE IF MapGet(object, "bbox").val.t # "arr" THEN { Err("BboxExpectedArray") }
  ELSE IF \E i \in 1..Len(MapGet(object, "bbox").val.a) :
            MapGet(object, "bbox").val.a[i].t # "num"
    THEN { Err("BboxExpectedNumericValues") }
  ELSE { }

CrsErrors(object) ==
  IF "crs" \notin Keys(object) THEN { }
  ELSE IF MapGet(object, "crs").val.t # "obj" THEN { Err("CrsExpectedObject") }
  ELSE IF Crs_from_object(MapGet(object, "crs").val.o).ok THEN { }
  ELSE { Crs_from_object(MapGet(object, "crs").val.o) }

\* the failure the claimed order of checks ends with: `type`, the payload (for
\* a collection the first failing child in array order), `bbox`, `crs`
RECURSIVE FirstErrors(_)
PayloadErrors(object) ==
  LET kind == MapGet(object, "type").val.s
      payload == MapGet(object, PayloadKey(kind))
  IN  IF ~payload.some THEN { Err("ExpectedProperty") }
      ELSE IF kind # "GeometryCollection"
        THEN IF ShapeError(payload.val, DepthOf(kind)) = "none" THEN { }
             ELSE { Err(ShapeError(payload.val, DepthOf(kind))) }
      ELSE IF payload.val.t # "arr" THEN { Err("ExpectedArrayValue") }
      ELSE LET bad == { i \in 1..Len(payload.val.a) :
                         \/ payload.val.a[i].t # "obj"
                         \/ FirstErrors(payload.val.a[i].o) # { } }
           IN  IF bad = { } THEN { }
               ELSE IF payload.val.a[Min(bad)].t # "obj"
                 THEN { Err("ExpectedObjectValue") }
               ELSE FirstErrors(payload.val.a[Min(bad)].o)

FirstErrors(object) ==
  IF TypeErrors(object) # { } THEN TypeErrors(object)
  ELSE IF PayloadErrors(object) # { } THEN PayloadErrors(object)
  ELSE IF BboxErrors(object) # { } THEN BboxErrors(object)
  ELSE CrsErrors(object)

\* C14: fail-fast precedence in Geometry parsing: the checks run in the order
\* `type`, payload, `bbox`, foreign members, `crs`, and the error returned is
\* that of the first failing check: an unknown type gives GeometryUnknownType
\* whatever else is wrong, a malformed payload wins over a malformed bbox or
\* crs, a malformed bbox wins over a malformed crs, and in a GeometryCollection
\* the error of the first failing child in array order is returned; the parse
\* succeeds exactly when no check fails.
C14_FirstFailingCheck ==
  (stage = "parsed" /\ entry = "Geometry") =>
    IF FirstErrors(InputObject) = { }
      THEN value.ok
      ELSE ~value.ok /\ value \in FirstErrors(InputObject)

\* a Point whose coordinates, bbox and crs are all malformed was refused with
\* the error of its coordinates
C14_Witness ==
  /\ stage = "parsed"
  /\ entry = "Geometry"
  /\ TypeErrors(InputObject) = { }
  /\ PayloadErrors(InputObject) = { Err("ExpectedF64Value") }
  /\ BboxErrors(InputObject) = { Err("BboxExpectedArray") }
  /\ CrsErrors(InputObject) = { Err("CrsExpectedObject") }
  /\ value = Err("ExpectedF64Value")

\* a CRS object of type "link" with an object under `properties` was parsed
ParsedLinkCrs ==
  /\ stage = "parsed"
  /\ entry = "Crs"
  /\ MapGet(InputObject, "type") = Some(JStr("link"))
  /\ "properties" \in Keys(InputObject)
  /\ MapGet(InputObject, "properties").val.t = "obj"

\* C15: linked CRS optional type: parsing a CRS object of type "link" requires
\* `properties.href` to be a string (absent: ExpectedProperty, not a string:
\* ExpectedStringValue) and yields Linked{href, type_} with type_ absent
\* exactly when `properties` has no `type` key and the string when the key
\* holds a string; a `properties.type` that is present and no string, null
\* included, fails with ExpectedStringValue and is not taken as absent.
C15_LinkedOptionalType ==
  ParsedLinkCrs =>
    LET properties == MapGet(InputObject, "properties").val.o
        href == MapGet(properties, "href")
        ty == MapGet(properties, "type")
    IN  /\ ~href.some => value = Err("ExpectedProperty")
        /\ (href.some /\ href.val.t # "str") => value = Err("ExpectedStringValue")
        /\ (href.some /\ href.val.t = "str") =>
             /\ ~ty.some => value = Ok(Linked(href.val.s, None))
             /\ (ty.some /\ ty.val.t = "str") =>
                  value = Ok(Linked(href.val.s, Some(ty.val.s)))
             /\ (ty.some /\ ty.val.t # "str") => value = Err("ExpectedStringValue")
        /\ (value.ok /\ ~value.v.type_.some) => ~ty.some

\* a link whose `properties.type` is null was refused
C15_Witness ==
  /\ ParsedLinkCrs
  /\ MapGet(MapGet(InputObject, "properties").val.o, "href") = Some(JStr("h"))
  /\ MapGet(MapGet(InputObject, "properties").val.o, "type") = Some(JNull)
  /\ value = Err("ExpectedStringValue")

====
